---- MODULE Spec2Model ----
(***************************************************************************)
(* Follow-up cadence engine of the Spaceport CRM dashboard.                *)
(*                                                                         *)
(*   calculatePriority   src/components/leads-table.tsx                    *)
(*   LeadsTable          src/components/leads-table.tsx                    *)
(*   calculateFollowUps  src/unnamed/part_009  (FollowUpPriority)          *)
(*   DashboardPage       src/unnamed/part_002                              *)
(*                                                                         *)
(* Time is counted in whole hours since the Unix epoch (the code counts    *)
(* milliseconds; one model unit is 1000*60*60 ms), so a day is 24 units    *)
(* and Math.floor((now - t) / dayMs) is (now - t) \div HoursPerDay.        *)
(* A note's ISO timestamp string is written by Date.toISOString() and read *)
(* back by new Date(s).getTime(), which returns the same instant; a note   *)
(* carries that instant.                                                   *)
(***************************************************************************)
EXTENDS Integers, Sequences, FiniteSets, TLC

VARIABLES
    \* ---- the cadence functions applied to one drawn lead (SpecCalc) ----
    cLead,          \* the lead object handed to the functions
    cNow,           \* the wall clock read by new Date()
    cResult,        \* last value returned by calculatePriority
    cFollowUps,     \* last value returned by calculateFollowUps
    cCalls,         \* the functions that have been applied so far
    \* ---- DashboardPage (Spec) ----
    now,            \* wall clock
    leads,          \* useState<Lead[]>
    selectedLead,   \* ids of the lead shown in LeadPanel: {} is null, else {id}
    sortByRecent,   \* useState(false)
    showDormant,    \* useState(false)
    nextId,         \* source of fresh ids (Date.now().toString())
    rows,           \* LeadsTable: filteredAndSortedLeads of the last render
    followUps,      \* FollowUpPriority: calculateFollowUps() of the last render
    lwpMemo,        \* LeadsTable: the array held by useMemo as leadsWithPriority
    \* ---- the Owner column of LeadsTable (SpecOwner) ----
    oUser,          \* useAuth().user: a user id, or NoUser for null
    oLeads,         \* the leads with their ownerId and ownerName
    \* ---- the API-backed Dashboard and its backend (SpecApi) ----
    aLeads,         \* useState<Lead[]>
    aSelected,      \* selectedLead: {} is null, else {id of the lead object}
    aReqs,          \* update and delete handlers suspended at their await
    aImport,        \* the handleCsvImport invocation suspended at its await
    aNextId,        \* source of the ids the backend gives to new leads
    aResult,        \* what the last completed handleCsvImport returned
    \* ---- the CSVImport dialog and its parent's isImportOpen (SpecDialog) ----
    dOpen,          \* isImportOpen of the parent, the dialog's isOpen prop
    dFile,          \* useState<File | null>: 0 is null, else the file chosen
    dParsed,        \* parsedLeads.length
    dPreview,       \* previewMode
    dResult,        \* importResult: "none" is null, else "success" or "failure"
    dTimers,        \* pending setTimeout callbacks: opening that set it, seconds left
    dSession,       \* how many times the dialog has been opened
    dImported,      \* how many imports the parent's onImport has accepted
    \* ---- the localStorage-backed AuthProvider (SpecAuth) ----
    uAccounts,      \* localStorage "spaceport_accounts"
    uUser,          \* useState<User | null>: {} is null, else {user}
    uReturn,        \* what the last signIn or signUp returned
    \* ---- ApiClient.request applied to one outcome of fetch (SpecRequest) ----
    qFetch,         \* what fetch does: the error it throws or the response
    qResult         \* what the promise returned by request settles to

calcVars == <<cLead, cNow, cResult, cFollowUps, cCalls>>
dashVars == <<now, leads, selectedLead, sortByRecent, showDormant, nextId, rows, followUps,
              lwpMemo>>
ownerVars == <<oUser, oLeads>>
apiVars == <<aLeads, aSelected, aReqs, aImport, aNextId, aResult>>
dialogVars == <<dOpen, dFile, dParsed, dPreview, dResult, dTimers, dSession, dImported>>
authVars == <<uAccounts, uUser, uReturn>>
requestVars == <<qFetch, qResult>>
extVars == <<ownerVars, apiVars, dialogVars, authVars, requestVars>>
vars == <<calcVars, dashVars, extVars>>

-----------------------------------------------------------------------------
(* Bounds *)

MaxNotes == 2       \* notes of a drawn lead
MaxListNotes == 1   \* the lead panel adds a note while the list holds fewer notes
MaxLeads == 2       \* leads in the dashboard list
MaxClockDays == 3   \* days the dashboard stays open
MaxWidgetLeads == 9 \* leads handed to the follow-up widget
MaxPattern == 3     \* those leads repeat a drawn pattern of this length
MaxOwnerLeads == 4  \* leads in the table whose Owner column is used
MaxApiLeads == 2    \* leads loaded from the backend
MaxInFlight == 2    \* update and delete requests waiting for their response
MaxImportRows == 2  \* rows of an imported CSV file
MaxImported == 4    \* leads created by imports while the dashboard is open
MaxSessions == 2    \* times the import dialog is opened
MaxFiles == 2       \* files the user can choose from
MaxParsed == 1      \* leads parsed from a file
MaxImports == 2     \* imports the parent accepts
MaxAccounts == 2    \* accounts that fit in localStorage

-----------------------------------------------------------------------------
(* Domain *)

HoursPerDay == 24

Statuses == {"cold", "contacted", "interested", "closed", "dormant"}
NoteTypes == {"call", "email", "note"}
Priorities == {"high", "medium", "low", "dormant"}

NoResult == [priority |-> "none", nextActionDate |-> 0, reason |-> "none"]
NoPriority == "undefined"
CurrentUser == "u1"

\* A clock value of the present day: 20000 days after the epoch, at 13:00.
Now0 == 20000 * HoursPerDay + 13

\* undefined / null where a user id or a user name is expected
NoUser == "none"
NoName == "none"

\* the parts of the program that a specification does not exercise stay as
\* they are before they are first used
OwnerIdle == oUser = NoUser /\ oLeads = <<>>
NoReturn == [success |-> FALSE, message |-> "none"]
NoImport == [rows |-> 0, results |-> <<>>, errors |-> 0, stage |-> "none"]
ApiIdle ==
    /\ aLeads = <<>>
    /\ aSelected = {}
    /\ aReqs = {}
    /\ aImport = NoImport
    /\ aNextId = 0
    /\ aResult = NoReturn
DialogIdle ==
    /\ dOpen = FALSE
    /\ dFile = 0
    /\ dParsed = 0
    /\ dPreview = FALSE
    /\ dResult = "none"
    /\ dTimers = {}
    /\ dSession = 0
    /\ dImported = 0
AuthIdle ==
    /\ uAccounts = <<>>
    /\ uUser = {}
    /\ uReturn = [op |-> "none", success |-> FALSE]
\* JavaScript values: null, a string, a parsed object with its message and
\* error properties, and other parsed values, which have neither property
Undefined == "<undefined>"
JsNull == [kind |-> "null", text |-> "", message |-> Undefined, error |-> Undefined]
JsString(t) == [kind |-> "string", text |-> t, message |-> Undefined, error |-> Undefined]
JsObject(m, e) == [kind |-> "object", text |-> "", message |-> m, error |-> e]
JsOther(kind) == [kind |-> kind, text |-> "", message |-> Undefined, error |-> Undefined]
NoThrown == [isError |-> FALSE, message |-> ""]
NoFetch == [threw |-> FALSE, thrown |-> NoThrown, status |-> 0, text |-> "", textFails |-> FALSE]
NotSettled == [settled |-> FALSE, rejected |-> FALSE, data |-> JsNull, error |-> JsNull]
RequestIdle == qFetch = NoFetch /\ qResult = NotSettled
ExtIdle == OwnerIdle /\ ApiIdle /\ DialogIdle /\ AuthIdle /\ RequestIdle

-----------------------------------------------------------------------------
(* Array.prototype.sort: stable, ordered by a consistent comparator.       *)
(* cmp[i][j] is the comparator's value for (s[i], s[j]).  Element i goes    *)
(* after every element that compares before it and after the equal         *)
(* elements that precede it in the array.                                  *)

StableSort(s, cmp) ==
    LET pos == [i \in DOMAIN s |-> 1 + Cardinality({j \in DOMAIN s :
                        \/ cmp[j][i] < 0
                        \/ (cmp[j][i] = 0 /\ j < i)})] \o <<>>
    IN  [k \in DOMAIN s |-> s[CHOOSE i \in DOMAIN s : pos[i] = k]]

\* (a, b) => new Date(b.timestamp).getTime() - new Date(a.timestamp).getTime()
NoteCmp(a, b) == b.timestamp - a.timestamp

\* lead.notes.sort(NoteCmp): sorts the lead's own array in place and returns it
SortNotes(notes) ==
    StableSort(notes, [i \in DOMAIN notes |-> [j \in DOMAIN notes |-> NoteCmp(notes[i], notes[j])]])

\* the lead object after its notes array has been sorted in place
NotesSortedInPlace(lead) == [lead EXCEPT !.notes = SortNotes(@)]

\* variant: calendar days between the two dates instead of elapsed time
daysSinceLastContact_calendar(note, t) ==
    (t \div HoursPerDay) - (note.timestamp \div HoursPerDay)

\* Math.floor((now.getTime() - new Date(note.timestamp).getTime()) / dayMs)
daysSinceLastContact(note, t) == (t - note.timestamp) \div HoursPerDay

-----------------------------------------------------------------------------
(* calculatePriority, src/components/leads-table.tsx:54-119 *)

\* variant: a lead without notes gets the modal's default tier
NoNotesResult_medium(t) ==
    [priority |-> "medium", nextActionDate |-> t, reason |-> "No initial contact made"]

NoNotesResult(t) ==
    [priority |-> "high", nextActionDate |-> t, reason |-> "No initial contact made"]

\* variant: dormant from the 30th day on
DormantRule_ge(days) == days >= 30

DormantRule(days) == days > 30

\* variant: interested leads wait three days
InterestedRule_late(status, days) == status = "interested" /\ days >= 3

InterestedRule(status, days) == status = "interested" /\ days >= 2

\* variant: strict comparison
CallRule_gt(lastNote, days) == lastNote.type = "call" /\ days > 3

CallRule(lastNote, days) == lastNote.type = "call" /\ days >= 3

\* variant: the widget's email threshold
EmailRule_widget(lastNote, days) == lastNote.type = "email" /\ days >= 4

EmailRule(lastNote, days) == lastNote.type = "email" /\ days >= 5

WeeklyRule(days) == days >= 7

\* variant: the days elapsed are added instead of the days remaining
OnScheduleDate_elapsed(days, t) == t + days * HoursPerDay

\* new Date(Date.now() + (7 - daysSinceLastContact) * dayMs)
OnScheduleDate(days, t) == t + (7 - days) * HoursPerDay

calculatePriority(lead, t) ==
    LET sorted == SortNotes(lead.notes) IN
    IF Len(sorted) = 0 THEN NoNotesResult(t)
    ELSE
      LET lastNote == sorted[1]
          days == daysSinceLastContact(lastNote, t)
      IN  IF DormantRule(days) THEN
              [priority |-> "dormant", nextActionDate |-> t + 7 * HoursPerDay,
               reason |-> "Dormant - follow up when convenient"]
          ELSE IF InterestedRule(lead.status, days) THEN
              [priority |-> "high", nextActionDate |-> t,
               reason |-> "Interested lead needs immediate follow-up"]
          ELSE IF CallRule(lastNote, days) THEN
              [priority |-> "medium", nextActionDate |-> t,
               reason |-> "Email follow-up after call"]
          ELSE IF EmailRule(lastNote, days) THEN
              [priority |-> "medium", nextActionDate |-> t,
               reason |-> "Call follow-up after email"]
          ELSE IF WeeklyRule(days) THEN
              [priority |-> "low", nextActionDate |-> t, reason |-> "Weekly check-in"]
          ELSE
              [priority |-> "low", nextActionDate |-> OnScheduleDate(days, t),
               reason |-> "On schedule"]

-----------------------------------------------------------------------------
(* calculateFollowUps, src/unnamed/part_009:40-99 *)

FollowUpItem(lead, urgency, nextAction, daysOverdue, reason) ==
    [lead |-> lead.id, urgency |-> urgency, nextAction |-> nextAction,
     daysOverdue |-> daysOverdue, reason |-> reason]

\* variant: the wrong status is skipped
ClosedLead_dormant(lead) == lead.status = "dormant"

\* if (lead.status === "closed") return
ClosedLead(lead) == lead.status = "closed"

\* variant: a lead without notes is only a medium follow-up
NoInteractionItem_medium(lead) ==
    FollowUpItem(lead, "medium", "call", 0, "No initial contact made")

\* the item pushed for a lead without notes
NoInteractionItem(lead) ==
    FollowUpItem(lead, "high", "call", 0, "No initial contact made")

\* variant: the table's call threshold
CallFollowUpDue_table(lastInteraction, days) == lastInteraction.type = "call" /\ days >= 3

CallFollowUpDue(lastInteraction, days) == lastInteraction.type = "call" /\ days >= 2

\* daysSinceLastContact > 4 ? "high" : "medium"
CallUrgency(days) == IF days > 4 THEN "high" ELSE "medium"

EmailFollowUpDue(lastInteraction, days) == lastInteraction.type = "email" /\ days >= 4

\* daysSinceLastContact > 7 ? "high" : "medium"
EmailUrgency(days) == IF days > 7 THEN "high" ELSE "medium"

\* variant: strict comparison
WeeklyCheckInDue_gt(days) == days > 7

WeeklyCheckInDue(days) == days >= 7

\* the body of leads.forEach: the items (none or one) pushed for one lead
FollowUpsOfLead(lead, t) ==
    IF ClosedLead(lead) THEN <<>>
    ELSE
      LET sorted == SortNotes(lead.notes) IN
      IF Len(sorted) = 0 THEN <<NoInteractionItem(lead)>>
      ELSE
        LET lastInteraction == sorted[1]
            days == daysSinceLastContact(lastInteraction, t)
        IN  IF CallFollowUpDue(lastInteraction, days) THEN
                <<FollowUpItem(lead, CallUrgency(days), "email",
                               days - 2, "Email follow-up after call")>>
            ELSE IF EmailFollowUpDue(lastInteraction, days) THEN
                <<FollowUpItem(lead, EmailUrgency(days), "call",
                               days - 4, "Call follow-up after email")>>
            ELSE IF WeeklyCheckInDue(days) THEN
                <<FollowUpItem(lead, "low", "call", days - 7, "Weekly check-in")>>
            ELSE <<>>

urgencyOrder(u) == CASE u = "high" -> 3 [] u = "medium" -> 2 [] u = "low" -> 1

\* variant: ascending comparator
FollowUpCmp_ascending(a, b) ==
    IF urgencyOrder(a.urgency) - urgencyOrder(b.urgency) # 0
    THEN urgencyOrder(a.urgency) - urgencyOrder(b.urgency)
    ELSE a.daysOverdue - b.daysOverdue

\* urgencyOrder[b.urgency] - urgencyOrder[a.urgency] || b.daysOverdue - a.daysOverdue
FollowUpCmp(a, b) ==
    IF urgencyOrder(b.urgency) - urgencyOrder(a.urgency) # 0
    THEN urgencyOrder(b.urgency) - urgencyOrder(a.urgency)
    ELSE b.daysOverdue - a.daysOverdue

RECURSIVE PushFollowUps(_, _)
PushFollowUps(ls, t) ==
    IF Len(ls) = 0 THEN <<>>
    ELSE FollowUpsOfLead(Head(ls), t) \o PushFollowUps(Tail(ls), t)

calculateFollowUps(ls, t) ==
    LET items == PushFollowUps(ls, t)
    IN  StableSort(items, [i \in DOMAIN items |-> [j \in DOMAIN items |->
                              FollowUpCmp(items[i], items[j])]])

\* what the forEach body leaves of the lead object: a closed lead returns
\* before the sort, every other lead has its notes array sorted in place
FollowUpsLeadAfter(lead) ==
    IF lead.status = "closed" THEN lead ELSE NotesSortedInPlace(lead)

\* followUps.slice(0, 8)
WidgetLimit == 8
ShownFollowUps(items) == SubSeq(items, 1, IF Len(items) < WidgetLimit THEN Len(items) ELSE WidgetLimit)

-----------------------------------------------------------------------------
(* LeadsTable, src/components/leads-table.tsx:121-167 *)

\* { ...lead, priority, nextActionDate, priorityReason: reason }
WithPriority(lead, t) ==
    LET r == calculatePriority(lead, t) IN
    [id |-> lead.id, status |-> lead.status, ownerId |-> lead.ownerId,
     notes |-> SortNotes(lead.notes),
     priority |-> r.priority, nextActionDate |-> r.nextActionDate,
     priorityReason |-> r.reason]

leadsWithPriority(ls, t) == [i \in DOMAIN ls |-> WithPriority(ls[i], t)]

priorityOrder(p) ==
    CASE p = "high" -> 4 [] p = "medium" -> 3 [] p = "low" -> 2 [] p = "dormant" -> 1

\* aLastNote ? new Date(aLastNote.timestamp).getTime() : 0
LastNoteTime(lead) ==
    IF Len(lead.notes) = 0 THEN 0 ELSE SortNotes(lead.notes)[1].timestamp

\* variant: tiers compared the other way round
LeadCmp_lowFirst(a, b) ==
    IF priorityOrder(a.priority) - priorityOrder(b.priority) # 0
    THEN priorityOrder(a.priority) - priorityOrder(b.priority)
    ELSE LastNoteTime(b) - LastNoteTime(a)

\* variant: times compared the other way round
LeadCmp_oldestFirst(a, b) ==
    IF priorityOrder(b.priority) - priorityOrder(a.priority) # 0
    THEN priorityOrder(b.priority) - priorityOrder(a.priority)
    ELSE LastNoteTime(a) - LastNoteTime(b)

\* the comparator handed to filtered.sort
LeadCmp(a, b) ==
    IF priorityOrder(b.priority) - priorityOrder(a.priority) # 0
    THEN priorityOrder(b.priority) - priorityOrder(a.priority)
    ELSE LastNoteTime(b) - LastNoteTime(a)

\* variant: the dormant filter compares with the wrong tier
filteredAndSortedLeads_wrongTier(lwp, sortRecent, dormantShown) ==
    LET NotLow(l) == l.priority # "low"
        filtered == IF ~dormantShown THEN SelectSeq(lwp, NotLow) ELSE lwp
    IN  IF sortRecent
        THEN StableSort(filtered, [i \in DOMAIN filtered |-> [j \in DOMAIN filtered |->
                                      LeadCmp(filtered[i], filtered[j])]])
        ELSE filtered

filteredAndSortedLeads(lwp, sortRecent, dormantShown) ==
    LET NotDormant(l) == l.priority # "dormant"
        filtered == IF ~dormantShown THEN SelectSeq(lwp, NotDormant) ELSE lwp
    IN  IF sortRecent
        THEN StableSort(filtered, [i \in DOMAIN filtered |-> [j \in DOMAIN filtered |->
                                      LeadCmp(filtered[i], filtered[j])]])
        ELSE filtered

-----------------------------------------------------------------------------
(* The cadence functions applied to drawn inputs *)

\* ages (in hours) of the drawn notes: both sides of every threshold, a note
\* dated in the future, and the hour before a whole day is reached
NoteAges == {-24, 0, 47, 48, 71, 72, 96, 120, 168, 192, 743, 744}

ClockValues == {Now0}

DrawnNotes(t) == [type : NoteTypes, timestamp : {t - a : a \in NoteAges}]

DrawnNoteSeqs(t) == UNION {[1..n -> DrawnNotes(t)] : n \in 0..MaxNotes}

InitDash ==
    /\ now = Now0
    /\ leads = <<>>
    /\ selectedLead = {}
    /\ sortByRecent = FALSE
    /\ showDormant = FALSE
    /\ nextId = 1
    /\ rows = <<>>
    /\ followUps = <<>>
    /\ lwpMemo = <<>>

\* the cadence functions not applied
CalcIdle ==
    /\ cNow = Now0
    /\ cLead = [id |-> 1, status |-> "cold", priority |-> NoPriority,
                ownerId |-> CurrentUser, notes |-> <<>>]
    /\ cResult = NoResult
    /\ cFollowUps = <<>>
    /\ cCalls = {}

InitCalc ==
    /\ cNow \in ClockValues
    /\ cLead \in [id : {1}, status : Statuses, priority : {NoPriority},
                  ownerId : {CurrentUser}, notes : DrawnNoteSeqs(cNow)]
    /\ cResult = NoResult
    /\ cFollowUps = <<>>
    /\ cCalls = {}
    /\ ExtIdle
    /\ InitDash

\* const { priority, nextActionDate, reason } = calculatePriority(lead)
CalcPriority ==
    /\ cResult' = calculatePriority(cLead, cNow)
    /\ cLead' = NotesSortedInPlace(cLead)
    /\ cCalls' = cCalls \cup {"calculatePriority"}
    /\ UNCHANGED <<cNow, cFollowUps>>
    /\ UNCHANGED dashVars
    /\ UNCHANGED extVars

\* const followUps = calculateFollowUps()   with leads = [lead]
CalcFollowUps ==
    /\ cFollowUps' = calculateFollowUps(<<cLead>>, cNow)
    /\ cLead' = FollowUpsLeadAfter(cLead)
    /\ cCalls' = cCalls \cup {"calculateFollowUps"}
    /\ UNCHANGED <<cNow, cResult>>
    /\ UNCHANGED dashVars
    /\ UNCHANGED extVars

NextCalc == CalcPriority \/ CalcFollowUps

SpecCalc == InitCalc /\ [][NextCalc]_vars

-----------------------------------------------------------------------------
(* DashboardPage, src/unnamed/part_002 *)

\* statuses offered by the add-lead form and by the lead panel
FormStatuses == {"contacted"}
PanelStatuses == {"interested"}
\* note types recorded through the lead panel
PanelNoteTypes == {"call", "email"}

\* the clock advances in steps of three days
TickSteps == {3 * HoursPerDay}

\* rows of an imported file: the status inferred from the notes text and the
\* age of the date found in the text (here a call of 40 days ago)
ParsedRows == {[status |-> "interested", type |-> "call", age |-> 40 * HoursPerDay]}

\* parseCSV: the ParsedLead of a row, its note dated by the text
ParsedLead(row) ==
    [status |-> row.status,
     notes |-> <<[type |-> row.type, timestamp |-> now - row.age]>>]

\* the dashboard's metric counters, read from the stored Lead.priority
highPriorityLeads == Cardinality({i \in DOMAIN leads : leads[i].priority = "high"})
dormantLeads == Cardinality({i \in DOMAIN leads : leads[i].priority = "dormant"})

\* variant: the table is handed the leads state itself, a new array only
\* when a handler has set it
LeadsPropChanged_state(ls) == ls # leads

\* const filteredLeads = leads.filter(...): the leads prop of LeadsTable is a
\* new array at every render of DashboardPage
LeadsPropChanged(ls) == TRUE

\* useMemo(() => leads.map(...), [leads])
MemoLeadsWithPriority(ls) ==
    IF LeadsPropChanged(ls) THEN leadsWithPriority(ls, now) ELSE lwpMemo

\* the memoized array after filteredAndSortedLeads has run: without the
\* dormant filter, filtered is that array itself and filtered.sort reorders it
LeadsWithPriorityAfter(lwp, sortRecent, dormantShown) ==
    IF dormantShown /\ sortRecent
    THEN filteredAndSortedLeads(lwp, sortRecent, dormantShown)
    ELSE lwp

\* one render of DashboardPage with the lead list ls: FollowUpPriority and
\* LeadsTable are mounted when the list is not empty, and both sort the notes
\* array of the lead objects they are handed (filterByOwnership stays "all",
\* so filteredLeads holds every lead of the list)
Render(ls, sortRecent, dormantShown) ==
    /\ leads' = [i \in DOMAIN ls |-> NotesSortedInPlace(FollowUpsLeadAfter(ls[i]))]
    /\ followUps' = calculateFollowUps(ls, now)
    /\ rows' = filteredAndSortedLeads(MemoLeadsWithPriority(ls), sortRecent, dormantShown)
    /\ lwpMemo' = LeadsWithPriorityAfter(MemoLeadsWithPriority(ls), sortRecent, dormantShown)

\* the number of notes held by the leads of a list
RECURSIVE NotesInList(_)
NotesInList(ls) ==
    IF Len(ls) = 0 THEN 0 ELSE Len(Head(ls).notes) + NotesInList(Tail(ls))

\* AddLeadModal.handleSubmit -> handleAddLead
handleAddLead(status) ==
    /\ Len(leads) < MaxLeads
    /\ LET newLead == [id |-> nextId, status |-> status, priority |-> "medium",
                       ownerId |-> CurrentUser, notes |-> <<>>]
       IN  Render(Append(leads, newLead), sortByRecent, showDormant)
    /\ nextId' = nextId + 1
    /\ UNCHANGED <<now, selectedLead, sortByRecent, showDormant>>
    /\ UNCHANGED calcVars
    /\ UNCHANGED extVars

\* CSVImport.handleImport -> handleCSVImport, for a file of one row
handleCSVImport(row) ==
    /\ Len(leads) < MaxLeads
    /\ LET parsed == ParsedLead(row)
           imported == [id |-> nextId, status |-> parsed.status, priority |-> NoPriority,
                        ownerId |-> CurrentUser, notes |-> SortNotes(parsed.notes)]
       IN  Render(Append(leads, imported), sortByRecent, showDormant)
    /\ nextId' = nextId + 1
    /\ UNCHANGED <<now, selectedLead, sortByRecent, showDormant>>
    /\ UNCHANGED calcVars
    /\ UNCHANGED extVars

\* the "View Details" button of a table row
handleLeadSelect(id) ==
    /\ \E k \in DOMAIN rows : rows[k].id = id
    /\ selectedLead' = {id}
    /\ Render(leads, sortByRecent, showDormant)
    /\ UNCHANGED <<now, sortByRecent, showDormant, nextId>>
    /\ UNCHANGED calcVars
    /\ UNCHANGED extVars

\* variant: the note is dated by its calendar day
NewNote_dateOnly(type, t) == [type |-> type, timestamp |-> (t \div HoursPerDay) * HoursPerDay]

\* { id: Date.now().toString(), ...note, timestamp: new Date().toISOString() }
NewNote(type, t) == [type |-> type, timestamp |-> t]

\* variant: the note is appended to every lead of the list
handleAddNote_everyLead(leadId, type) ==
    /\ selectedLead = {leadId}
    /\ NotesInList(leads) < MaxListNotes
    /\ LET newNote == [type |-> type, timestamp |-> now]
       IN  Render([i \in DOMAIN leads |-> [leads[i] EXCEPT !.notes = Append(@, newNote)]],
                  sortByRecent, showDormant)
    /\ UNCHANGED <<now, selectedLead, sortByRecent, showDormant, nextId>>
    /\ UNCHANGED calcVars
    /\ UNCHANGED extVars

\* LeadPanel.handleAddNote -> handleAddNote(lead.id, note)
handleAddNote(leadId, type) ==
    /\ selectedLead = {leadId}
    /\ NotesInList(leads) < MaxListNotes
    /\ LET newNote == NewNote(type, now)
       IN  Render([i \in DOMAIN leads |->
                      IF leads[i].id = leadId
                      THEN [leads[i] EXCEPT !.notes = Append(@, newNote)]
                      ELSE leads[i]],
                  sortByRecent, showDormant)
    /\ UNCHANGED <<now, selectedLead, sortByRecent, showDormant, nextId>>
    /\ UNCHANGED calcVars
    /\ UNCHANGED extVars

\* LeadPanel.handleStatusChange -> handleLeadUpdate(lead.id, { status })
handleLeadUpdate(leadId, status) ==
    /\ selectedLead = {leadId}
    /\ Render([i \in DOMAIN leads |->
                  IF leads[i].id = leadId
                  THEN [leads[i] EXCEPT !.status = status]
                  ELSE leads[i]],
              sortByRecent, showDormant)
    /\ UNCHANGED <<now, selectedLead, sortByRecent, showDormant, nextId>>
    /\ UNCHANGED calcVars
    /\ UNCHANGED extVars

\* onClick={() => setSortByRecent(!sortByRecent)}
ToggleSortByRecent ==
    /\ Len(leads) > 0
    /\ sortByRecent' = ~sortByRecent
    /\ Render(leads, ~sortByRecent, showDormant)
    /\ UNCHANGED <<now, selectedLead, showDormant, nextId>>
    /\ UNCHANGED calcVars
    /\ UNCHANGED extVars

\* onClick={() => setShowDormant(!showDormant)}
ToggleShowDormant ==
    /\ Len(leads) > 0
    /\ showDormant' = ~showDormant
    /\ Render(leads, sortByRecent, ~showDormant)
    /\ UNCHANGED <<now, selectedLead, sortByRecent, nextId>>
    /\ UNCHANGED calcVars
    /\ UNCHANGED extVars

\* time passes; nothing is rendered until the next state change
Tick(step) ==
    /\ now + step <= Now0 + MaxClockDays * HoursPerDay
    /\ now' = now + step
    /\ UNCHANGED <<leads, selectedLead, sortByRecent, showDormant, nextId, rows, followUps,
                   lwpMemo>>
    /\ UNCHANGED calcVars
    /\ UNCHANGED extVars

Init ==
    /\ InitDash
    /\ cNow = Now0
    /\ cLead = [id |-> 1, status |-> "cold", priority |-> NoPriority,
                ownerId |-> CurrentUser, notes |-> <<>>]
    /\ cResult = NoResult
    /\ cFollowUps = <<>>
    /\ cCalls = {}
    /\ ExtIdle

Next ==
    \/ \E status \in FormStatuses : handleAddLead(status)
    \/ \E row \in ParsedRows : handleCSVImport(row)
    \/ \E id \in 1..MaxLeads : handleLeadSelect(id)
    \/ \E id \in 1..MaxLeads, type \in PanelNoteTypes : handleAddNote(id, type)
    \/ \E id \in 1..MaxLeads, status \in PanelStatuses : handleLeadUpdate(id, status)
    \/ ToggleSortByRecent
    \/ ToggleShowDormant
    \/ \E step \in TickSteps : Tick(step)

Spec == Init /\ [][Next]_vars

-----------------------------------------------------------------------------
(* DashboardPage holding one lead with the lead panel open on it: notes are  *)
(* recorded while the clock advances by 47 and 48 hours                      *)

NoteTickSteps == {47, 2 * HoursPerDay}

\* the notes the lead has before the panel is used: none, a call of three
\* days ago, an email dated tomorrow
SeedNotes ==
    { <<>>,
      <<[type |-> "call", timestamp |-> Now0 - 3 * HoursPerDay]>>,
      <<[type |-> "email", timestamp |-> Now0 + HoursPerDay]>> }

InitNote ==
    /\ now = Now0
    /\ \E status \in Statuses, notes \in SeedNotes :
          LET ls == <<[id |-> 1, status |-> status, priority |-> "medium",
                       ownerId |-> CurrentUser, notes |-> notes]>>
          IN  /\ leads = ls
              /\ followUps = calculateFollowUps(ls, Now0)
              /\ rows = filteredAndSortedLeads(leadsWithPriority(ls, Now0), FALSE, TRUE)
              /\ lwpMemo = leadsWithPriority(ls, Now0)
    /\ selectedLead = {1}
    /\ sortByRecent = FALSE
    /\ showDormant = TRUE
    /\ nextId = 2
    /\ cNow = Now0
    /\ cLead = [id |-> 1, status |-> "cold", priority |-> NoPriority,
                ownerId |-> CurrentUser, notes |-> <<>>]
    /\ cResult = NoResult
    /\ cFollowUps = <<>>
    /\ cCalls = {}
    /\ ExtIdle

\* LeadPanel.handleAddNote: the panel's lead gets a note of the chosen type
PanelAddNote(type) ==
    /\ Len(leads[1].notes) < MaxNotes
    /\ LET newNote == NewNote(type, now)
       IN  Render([i \in DOMAIN leads |->
                      IF selectedLead = {leads[i].id}
                      THEN [leads[i] EXCEPT !.notes = Append(@, newNote)]
                      ELSE leads[i]],
                  sortByRecent, showDormant)
    /\ UNCHANGED <<now, selectedLead, sortByRecent, showDormant, nextId>>
    /\ UNCHANGED calcVars
    /\ UNCHANGED extVars

NextNote ==
    \/ \E type \in NoteTypes : PanelAddNote(type)
    \/ \E step \in NoteTickSteps : Tick(step)

SpecNote == InitNote /\ [][NextNote]_vars

-----------------------------------------------------------------------------
(* The Owner column of LeadsTable, src/components/leads-table.tsx:169-182 and *)
(* 373-418, with DashboardPage.handleLeadUpdate behind onLeadUpdate          *)

Users == {"u1", "u2"}

\* user.name: every provider gives a user a non-empty name
UserName(u) == IF u = "u1" THEN "Ann" ELSE "Bob"

\* ownerId and ownerName as the code writes them: both set from one user, or
\* both undefined
Unowned == [ownerId |-> NoUser, ownerName |-> NoName]
OwnedBy(u) == [ownerId |-> u, ownerName |-> UserName(u)]

\* the leads are unclaimed or owned by other users when the table is mounted
InitOwner ==
    /\ oUser \in Users \cup {NoUser}
    /\ \E f \in [1..MaxOwnerLeads -> {Unowned} \cup {OwnedBy(u) : u \in Users \ {oUser}}] :
          oLeads = [i \in 1..MaxOwnerLeads |->
                      [id |-> i, ownerId |-> f[i].ownerId, ownerName |-> f[i].ownerName]]
    /\ CalcIdle
    /\ InitDash
    /\ ApiIdle
    /\ DialogIdle
    /\ AuthIdle
    /\ RequestIdle

\* if (!ownerName): the cell is the "Unclaimed" button
ClaimShown(lead) == lead.ownerName = NoName

\* variant: the release button is shown on every owned lead
UnclaimShown_anyOwner(lead) == lead.ownerName # NoName

\* isOwnedByCurrentUser && <Button onClick={() => handleUnclaimLead(...)}>
\* in the branch where ownerName is set; user?.id of no user is undefined
UnclaimShown(lead) == lead.ownerName # NoName /\ lead.ownerId = oUser

\* setLeads((prev) => prev.map((lead) => lead.id === leadId ? { ...lead, ...updates } : lead))
OwnerUpdate(leadId, updates) ==
    oLeads' = [i \in DOMAIN oLeads |->
                  IF oLeads[i].id = leadId
                  THEN [oLeads[i] EXCEPT !.ownerId = updates.ownerId,
                                         !.ownerName = updates.ownerName]
                  ELSE oLeads[i]]

handleClaimLead(leadId) ==
    /\ \E i \in DOMAIN oLeads : oLeads[i].id = leadId /\ ClaimShown(oLeads[i])
    /\ IF oUser = NoUser
       THEN UNCHANGED oLeads
       ELSE OwnerUpdate(leadId, OwnedBy(oUser))
    /\ UNCHANGED <<oUser, calcVars, dashVars, apiVars, dialogVars, authVars, requestVars>>

handleUnclaimLead(leadId) ==
    /\ \E i \in DOMAIN oLeads : oLeads[i].id = leadId /\ UnclaimShown(oLeads[i])
    /\ OwnerUpdate(leadId, Unowned)
    /\ UNCHANGED <<oUser, calcVars, dashVars, apiVars, dialogVars, authVars, requestVars>>

NextOwner ==
    \/ \E leadId \in 1..MaxOwnerLeads : handleClaimLead(leadId)
    \/ \E leadId \in 1..MaxOwnerLeads : handleUnclaimLead(leadId)

SpecOwner == InitOwner /\ [][NextOwner]_vars

-----------------------------------------------------------------------------
(* The API-backed Dashboard, src/unnamed/part_004:22-178, its ApiClient      *)
(* (part_004:936-1006) and the leads Lambda behind it (part_007:79-175).     *)
(* A handler is an async function: it runs up to its await, the request is   *)
(* answered, and the rest of the handler runs when the response arrives, in  *)
(* any order with the other handlers. The rest of the handler reads the      *)
(* selectedLead of the render in which the handler was called. The Lambda    *)
(* answers a PUT and a DELETE without reading the table (dynamodb.put and    *)
(* dynamodb.delete carry no condition), so the table is not part of the      *)
(* state. At most one update and one delete of a lead are in flight.         *)

LeadIds(ls) == {ls[i].id : i \in DOMAIN ls}

\* a handler invocation suspended at `await apiClient...`; selected is
\* selectedLead?.id === leadId as the invocation's closure sees it
ApiRequest(op, id, selected) ==
    [op |-> op, id |-> id, selected |-> selected, stage |-> "sent"]

InFlight(op, id) == {r \in aReqs : r.op = op /\ r.id = id}

Answered(r, ok) == [r EXCEPT !.stage = IF ok THEN "ok" ELSE "error"]

\* loadData has stored the backend's leads; nothing is selected
InitApi ==
    /\ \E n \in 1..MaxApiLeads :
          aLeads = [i \in 1..n |-> [id |-> i, edited |-> FALSE]]
    /\ aSelected = {}
    /\ aReqs = {}
    /\ aImport = NoImport
    /\ aNextId = MaxApiLeads + 1
    /\ aResult = NoReturn
    /\ CalcIdle
    /\ InitDash
    /\ OwnerIdle
    /\ DialogIdle
    /\ AuthIdle
    /\ RequestIdle

\* LeadsTable onSelectLead={setSelectedLead}: a row of the list is clicked
onSelectLead(id) ==
    /\ id \in LeadIds(aLeads)
    /\ aSelected' = {id}
    /\ UNCHANGED <<aLeads, aReqs, aImport, aNextId, aResult>>
    /\ UNCHANGED <<calcVars, dashVars, ownerVars, dialogVars, authVars, requestVars>>

\* LeadPanel onClose={() => setSelectedLead(null)}
onClose ==
    /\ aSelected # {}
    /\ aSelected' = {}
    /\ UNCHANGED <<aLeads, aReqs, aImport, aNextId, aResult>>
    /\ UNCHANGED <<calcVars, dashVars, ownerVars, dialogVars, authVars, requestVars>>

\* handleUpdateLead up to `await apiClient.updateLead(updatedLead)`; the
\* table and the panel hand it an edited copy of a lead of the list
handleUpdateLead(id) ==
    /\ id \in LeadIds(aLeads)
    /\ InFlight("update", id) = {}
    /\ Cardinality(aReqs) < MaxInFlight
    /\ aReqs' = aReqs \cup {ApiRequest("update", id, FALSE)}
    /\ UNCHANGED <<aLeads, aSelected, aImport, aNextId, aResult>>
    /\ UNCHANGED <<calcVars, dashVars, ownerVars, dialogVars, authVars, requestVars>>

\* handleDeleteLead up to `await apiClient.deleteLead(leadId)`
handleDeleteLead(id) ==
    /\ id \in LeadIds(aLeads)
    /\ InFlight("delete", id) = {}
    /\ Cardinality(aReqs) < MaxInFlight
    /\ aReqs' = aReqs \cup {ApiRequest("delete", id, aSelected = {id})}
    /\ UNCHANGED <<aLeads, aSelected, aImport, aNextId, aResult>>
    /\ UNCHANGED <<calcVars, dashVars, ownerVars, dialogVars, authVars, requestVars>>

\* PUT /leads/{id}: dynamodb.put of the body and 200 with the lead; or the
\* request fails (non-2xx or network error) and request() returns an error
PutLead(id, ok) ==
    /\ \E r \in InFlight("update", id) :
          /\ r.stage = "sent"
          /\ aReqs' = (aReqs \ {r}) \cup {Answered(r, ok)}
    /\ UNCHANGED <<aLeads, aSelected, aImport, aNextId, aResult>>
    /\ UNCHANGED <<calcVars, dashVars, ownerVars, dialogVars, authVars, requestVars>>

\* DELETE /leads/{id}: dynamodb.delete and 204; or the request fails
DeleteLead(id, ok) ==
    /\ \E r \in InFlight("delete", id) :
          /\ r.stage = "sent"
          /\ aReqs' = (aReqs \ {r}) \cup {Answered(r, ok)}
    /\ UNCHANGED <<aLeads, aSelected, aImport, aNextId, aResult>>
    /\ UNCHANGED <<calcVars, dashVars, ownerVars, dialogVars, authVars, requestVars>>

\* the rest of handleUpdateLead, from the destructuring of the response
handleUpdateLeadResume(id) ==
    /\ \E r \in InFlight("update", id) :
          /\ r.stage \in {"ok", "error"}
          /\ aReqs' = aReqs \ {r}
          /\ IF r.stage = "error"
             THEN UNCHANGED <<aLeads, aSelected>>
             ELSE /\ aLeads' = [i \in DOMAIN aLeads |->
                                  IF aLeads[i].id = id
                                  THEN [id |-> id, edited |-> TRUE]
                                  ELSE aLeads[i]]
                  /\ aSelected' = {id}
    /\ UNCHANGED <<aImport, aNextId, aResult>>
    /\ UNCHANGED <<calcVars, dashVars, ownerVars, dialogVars, authVars, requestVars>>

\* the rest of handleDeleteLead
handleDeleteLeadResume(id) ==
    /\ \E r \in InFlight("delete", id) :
          /\ r.stage \in {"ok", "error"}
          /\ aReqs' = aReqs \ {r}
          /\ IF r.stage = "error"
             THEN UNCHANGED <<aLeads, aSelected>>
             ELSE /\ aLeads' = SelectSeq(aLeads, LAMBDA l : l.id # id)
                  /\ aSelected' = IF r.selected THEN {} ELSE aSelected
    /\ UNCHANGED <<aImport, aNextId, aResult>>
    /\ UNCHANGED <<calcVars, dashVars, ownerVars, dialogVars, authVars, requestVars>>

NextApi ==
    \/ \E id \in 1..MaxApiLeads : onSelectLead(id)
    \/ onClose
    \/ \E id \in 1..MaxApiLeads : handleUpdateLead(id)
    \/ \E id \in 1..MaxApiLeads : handleDeleteLead(id)
    \/ \E id \in 1..MaxApiLeads, ok \in BOOLEAN : PutLead(id, ok)
    \/ \E id \in 1..MaxApiLeads, ok \in BOOLEAN : DeleteLead(id, ok)
    \/ \E id \in 1..MaxApiLeads : handleUpdateLeadResume(id)
    \/ \E id \in 1..MaxApiLeads : handleDeleteLeadResume(id)

SpecApi == InitApi /\ [][NextApi]_vars

-----------------------------------------------------------------------------
(* CSV import of the API-backed Dashboard: handleCsvImport                   *)
(* (part_004:163-178) over ApiClient.createLeads (part_004:983-1006)         *)

InitImport ==
    /\ \E n \in 0..MaxApiLeads :
          aLeads = [i \in 1..n |-> [id |-> i, edited |-> FALSE]]
    /\ aSelected = {}
    /\ aReqs = {}
    /\ aImport = NoImport
    /\ aNextId = MaxApiLeads + 1
    /\ aResult = NoReturn
    /\ CalcIdle
    /\ InitDash
    /\ OwnerIdle
    /\ DialogIdle
    /\ AuthIdle
    /\ RequestIdle

\* handleCsvImport up to `await apiClient.createLeads(importedLeads)`; the
\* dialog's button is disabled while an import runs
handleCsvImport(n) ==
    /\ aImport = NoImport
    /\ aNextId + n - 1 <= MaxApiLeads + MaxImported
    /\ aImport' = [rows |-> n, results |-> <<>>, errors |-> 0, stage |-> "sent"]
    /\ UNCHANGED <<aLeads, aSelected, aReqs, aNextId, aResult>>
    /\ UNCHANGED <<calcVars, dashVars, ownerVars, dialogVars, authVars, requestVars>>

\* one turn of the loop of createLeads: POST /leads gives the row a fresh
\* id, puts it and answers 201 with the lead, which is pushed to results;
\* or the request fails and its message is pushed to errors
PostLead(ok) ==
    /\ aImport.stage = "sent"
    /\ LET newLead == [id |-> aNextId, edited |-> FALSE]
           stage == IF aImport.rows = 1 THEN "answered" ELSE "sent"
       IN  IF ok
           THEN /\ aNextId' = aNextId + 1
                /\ aImport' = [aImport EXCEPT !.rows = @ - 1, !.stage = stage,
                                              !.results = Append(@, newLead)]
           ELSE /\ aImport' = [aImport EXCEPT !.rows = @ - 1, !.stage = stage,
                                              !.errors = @ + 1]
                /\ UNCHANGED aNextId
    /\ UNCHANGED <<aLeads, aSelected, aReqs, aResult>>
    /\ UNCHANGED <<calcVars, dashVars, ownerVars, dialogVars, authVars, requestVars>>

\* what createLeads returns after its loop; hasData is FALSE for data: null
createLeads(results, errors) ==
    IF errors > 0
    THEN [hasData |-> results # <<>>, data |-> results, error |-> TRUE]
    ELSE [hasData |-> TRUE, data |-> results, error |-> FALSE]

\* the rest of handleCsvImport
handleCsvImportResume ==
    /\ aImport.stage = "answered"
    /\ aImport' = NoImport
    /\ LET r == createLeads(aImport.results, aImport.errors)
       IN  IF r.error
           THEN /\ aResult' = [success |-> FALSE, message |-> "error"]
                /\ UNCHANGED aLeads
           ELSE IF r.hasData
           THEN /\ aLeads' = r.data \o aLeads
                /\ aResult' = [success |-> TRUE, message |-> "imported"]
           ELSE /\ aResult' = [success |-> FALSE, message |-> "unknown"]
                /\ UNCHANGED aLeads
    /\ UNCHANGED <<aSelected, aReqs, aNextId>>
    /\ UNCHANGED <<calcVars, dashVars, ownerVars, dialogVars, authVars, requestVars>>

NextImport ==
    \/ \E n \in 1..MaxImportRows : handleCsvImport(n)
    \/ \E ok \in BOOLEAN : PostLead(ok)
    \/ handleCsvImportResume

SpecImport == InitImport /\ [][NextImport]_vars

-----------------------------------------------------------------------------
(* The CSVImport dialog, src/unnamed/part_008:519-824, under a parent that   *)
(* keeps it mounted: <CSVImport isOpen={isImportOpen} onClose={...} /> with  *)
(* `if (!isOpen) return null` (part_008:826), so its state outlives a close. *)
(* A timer set by setTimeout(..., 2000) runs when its two seconds are over.  *)

TimerDelay == 2

InitDialog ==
    /\ DialogIdle
    /\ CalcIdle
    /\ InitDash
    /\ OwnerIdle
    /\ ApiIdle
    /\ AuthIdle
    /\ RequestIdle

\* the parent's "Import CSV" button: setIsImportOpen(true)
OpenImport ==
    /\ ~dOpen
    /\ dSession < MaxSessions
    /\ dOpen' = TRUE
    /\ dSession' = dSession + 1
    /\ UNCHANGED <<dFile, dParsed, dPreview, dResult, dTimers, dImported>>
    /\ UNCHANGED <<calcVars, dashVars, ownerVars, apiVars, authVars, requestVars>>

\* handleFileChange with a CSV file, and the parseCSV it starts: n leads
\* are parsed from the file and the preview is shown
handleFileChange(f, n) ==
    /\ dOpen /\ ~dPreview
    /\ dFile' = f
    /\ dResult' = "none"
    /\ dParsed' = n
    /\ dPreview' = TRUE
    /\ UNCHANGED <<dOpen, dTimers, dSession, dImported>>
    /\ UNCHANGED <<calcVars, dashVars, ownerVars, apiVars, authVars, requestVars>>

\* if (result.success) setTimeout(() => { onClose(); setFile(null); ... }, 2000)
ResetTimers(ok) ==
    IF ok THEN dTimers \cup {[session |-> dSession, left |-> TimerDelay]} ELSE dTimers

\* handleImport: the "Import n Leads" button, enabled while parsedLeads is
\* not empty; onImport resolves with success or not
handleImport(ok) ==
    /\ dOpen /\ dPreview
    /\ dParsed > 0
    /\ dImported < MaxImports
    /\ dImported' = IF ok THEN dImported + 1 ELSE dImported
    /\ dResult' = IF ok THEN "success" ELSE "failure"
    /\ dTimers' = ResetTimers(ok)
    /\ UNCHANGED <<dOpen, dFile, dParsed, dPreview, dSession>>
    /\ UNCHANGED <<calcVars, dashVars, ownerVars, apiVars, authVars, requestVars>>

handleBack ==
    /\ dOpen /\ dPreview
    /\ dPreview' = FALSE
    /\ dParsed' = 0
    /\ dResult' = "none"
    /\ UNCHANGED <<dOpen, dFile, dTimers, dSession, dImported>>
    /\ UNCHANGED <<calcVars, dashVars, ownerVars, apiVars, authVars, requestVars>>

\* onClose(); setFile(null); setParsedLeads([]); setPreviewMode(false);
\* setParseStats(null); setImportResult(null)
ResetForm ==
    /\ dOpen' = FALSE
    /\ dFile' = 0
    /\ dParsed' = 0
    /\ dPreview' = FALSE
    /\ dResult' = "none"

handleClose ==
    /\ dOpen
    /\ ResetForm
    /\ UNCHANGED <<dTimers, dSession, dImported>>
    /\ UNCHANGED <<calcVars, dashVars, ownerVars, apiVars, authVars, requestVars>>

\* a second passes; a timer whose time is over runs first
Second ==
    /\ dTimers # {}
    /\ \A t \in dTimers : t.left > 0
    /\ dTimers' = {[t EXCEPT !.left = @ - 1] : t \in dTimers}
    /\ UNCHANGED <<dOpen, dFile, dParsed, dPreview, dResult, dSession, dImported>>
    /\ UNCHANGED <<calcVars, dashVars, ownerVars, apiVars, authVars, requestVars>>

\* the callback handed to setTimeout by the import of opening s
TimerFires(s) ==
    /\ [session |-> s, left |-> 0] \in dTimers
    /\ dTimers' = dTimers \ {[session |-> s, left |-> 0]}
    /\ ResetForm
    /\ UNCHANGED <<dSession, dImported>>
    /\ UNCHANGED <<calcVars, dashVars, ownerVars, apiVars, authVars, requestVars>>

NextDialog ==
    \/ OpenImport
    \/ \E f \in 1..MaxFiles, n \in 0..MaxParsed : handleFileChange(f, n)
    \/ \E ok \in BOOLEAN : handleImport(ok)
    \/ handleBack
    \/ handleClose
    \/ Second
    \/ \E s \in 1..MaxSessions : TimerFires(s)

SpecDialog == InitDialog /\ [][NextDialog]_vars

-----------------------------------------------------------------------------
(* The localStorage-backed AuthProvider, src/components/csv-import.tsx:390-  *)
(* 502. signIn and signUp are async functions without an await: each runs    *)
(* from its first line to its return in one step.                            *)

demoAccounts ==
    { [id |-> "demo-1", email |-> "demo@spaceport.com", password |-> "demo123"],
      [id |-> "demo-2", email |-> "sarah@spaceport.com", password |-> "demo123"],
      [id |-> "demo-3", email |-> "mike@spaceport.com", password |-> "demo123"] }

\* what the forms are filled with; emails are compared as strings
Emails == {"demo@spaceport.com", "Demo@spaceport.com", "sarah@spaceport.com",
           "ann@example.com", "bob@example.com"}
Passwords == {"demo123", "secret"}

InitAuth ==
    /\ AuthIdle
    /\ CalcIdle
    /\ InitDash
    /\ OwnerIdle
    /\ ApiIdle
    /\ DialogIdle
    /\ RequestIdle

AuthUser(account, isDemo) ==
    [id |-> account.id, email |-> account.email, isDemo |-> isDemo]

\* accounts.find((acc) => acc.email === email)
existingAccount(email) == \E i \in DOMAIN uAccounts : uAccounts[i].email = email

\* demoAccounts.find((acc) => acc.email === email)
existingDemo(email) == \E acc \in demoAccounts : acc.email = email

\* variant: only the stored accounts are searched
EmailExists_storedOnly(email) == existingAccount(email)

\* if (existingAccount || existingDemo)
EmailExists(email) == existingAccount(email) \/ existingDemo(email)

signIn(email, password) ==
    /\ LET demo == {acc \in demoAccounts : acc.email = email /\ acc.password = password}
           found == {i \in DOMAIN uAccounts : /\ uAccounts[i].email = email
                                              /\ uAccounts[i].password = password}
       IN  IF demo # {}
           THEN /\ uUser' = {AuthUser(CHOOSE acc \in demo : TRUE, TRUE)}
                /\ uReturn' = [op |-> "signIn", success |-> TRUE]
           ELSE IF found # {}
           THEN /\ uUser' = {AuthUser(uAccounts[CHOOSE i \in found : \A j \in found : i <= j],
                                      FALSE)}
                /\ uReturn' = [op |-> "signIn", success |-> TRUE]
           ELSE /\ uReturn' = [op |-> "signIn", success |-> FALSE]
                /\ UNCHANGED uUser
    /\ UNCHANGED uAccounts
    /\ UNCHANGED <<calcVars, dashVars, ownerVars, apiVars, dialogVars, requestVars>>

\* Date.now().toString() of the n-th account that is created
AccountId(n) == <<"t1", "t2", "t3", "t4">>[n]

\* an account is created while localStorage holds fewer than MaxAccounts
signUp(email, password) ==
    /\ EmailExists(email) \/ Len(uAccounts) < MaxAccounts
    /\ IF EmailExists(email)
       THEN /\ uReturn' = [op |-> "signUp", success |-> FALSE]
            /\ UNCHANGED <<uAccounts, uUser>>
       ELSE LET newAccount == [id |-> AccountId(Len(uAccounts) + 1), email |-> email, password |-> password]
            IN  /\ uAccounts' = Append(uAccounts, newAccount)
                /\ uUser' = {AuthUser(newAccount, FALSE)}
                /\ uReturn' = [op |-> "signUp", success |-> TRUE]
    /\ UNCHANGED <<calcVars, dashVars, ownerVars, apiVars, dialogVars, requestVars>>

signInDemo ==
    /\ uUser' = {[id |-> "demo-1", email |-> "demo@spaceport.com", isDemo |-> TRUE]}
    /\ UNCHANGED <<uAccounts, uReturn>>
    /\ UNCHANGED <<calcVars, dashVars, ownerVars, apiVars, dialogVars, requestVars>>

signOut ==
    /\ uUser' = {}
    /\ UNCHANGED <<uAccounts, uReturn>>
    /\ UNCHANGED <<calcVars, dashVars, ownerVars, apiVars, dialogVars, requestVars>>

NextAuth ==
    \/ \E email \in Emails, password \in Passwords : signIn(email, password)
    \/ \E email \in Emails, password \in Passwords : signUp(email, password)
    \/ signInDemo
    \/ signOut

SpecAuth == InitAuth /\ [][NextAuth]_vars

-----------------------------------------------------------------------------
(* ApiClient.request, src/unnamed/part_004:887-934, applied to one outcome   *)
(* of fetch: fetch throws, or it resolves to a response with a status and a  *)
(* body whose text can be read or not.                                       *)

ResponseStatuses == {200, 201, 204, 400, 404, 500}

\* body texts: empty, not JSON, and JSON texts
Bodies == {"", "Internal Server Error", "null", "5", "[{id:'1'}]", "{}",
           "{message:'Forbidden'}", "{error:'Method not allowed'}",
           "{message:'',error:'Method not allowed'}"}

\* what fetch throws: an Error with a message, with an empty message, or a
\* value that is not an Error
Thrown == {[isError |-> TRUE, message |-> "Failed to fetch"],
           [isError |-> TRUE, message |-> ""],
           [isError |-> FALSE, message |-> "aborted"]}

FetchOutcomes ==
    {[threw |-> TRUE, thrown |-> t, status |-> 0, text |-> "", textFails |-> FALSE] :
        t \in Thrown}
    \cup
    {[threw |-> FALSE, thrown |-> NoThrown, status |-> st, text |-> b, textFails |-> tf] :
        st \in ResponseStatuses, b \in Bodies, tf \in BOOLEAN}

\* JSON.parse(text), and response.json() on a body with that text
JSONparse(text) ==
    CASE text = "" ->
           [threw |-> TRUE, message |-> "Unexpected end of JSON input", value |-> JsNull]
      [] text = "Internal Server Error" ->
           [threw |-> TRUE, message |-> "Unexpected token I in JSON", value |-> JsNull]
      [] text = "null" -> [threw |-> FALSE, message |-> "", value |-> JsNull]
      [] text = "5" -> [threw |-> FALSE, message |-> "", value |-> JsOther("number")]
      [] text = "[{id:'1'}]" -> [threw |-> FALSE, message |-> "", value |-> JsOther("array")]
      [] text = "{}" ->
           [threw |-> FALSE, message |-> "", value |-> JsObject(Undefined, Undefined)]
      [] text = "{message:'Forbidden'}" ->
           [threw |-> FALSE, message |-> "", value |-> JsObject("Forbidden", Undefined)]
      [] text = "{error:'Method not allowed'}" ->
           [threw |-> FALSE, message |-> "", value |-> JsObject(Undefined, "Method not allowed")]
      [] text = "{message:'',error:'Method not allowed'}" ->
           [threw |-> FALSE, message |-> "", value |-> JsObject("", "Method not allowed")]

\* `HTTP ${response.status}`
HttpMessage(status) ==
    CASE status = 400 -> "HTTP 400"
      [] status = 404 -> "HTTP 404"
      [] status = 500 -> "HTTP 500"
      [] OTHER -> "HTTP"

\* a || b takes b when a is undefined or the empty string
Falsy(v) == v = Undefined \/ v = ""

\* errorMessage of a response that is not ok; reading a property of a
\* parsed null throws inside the inner try
ErrorMessage(status, text) ==
    LET errorJson == JSONparse(text)
        caught == IF Falsy(text) THEN HttpMessage(status) ELSE text
    IN  IF errorJson.threw \/ errorJson.value = JsNull THEN caught
        ELSE IF ~Falsy(errorJson.value.message) THEN errorJson.value.message
        ELSE IF ~Falsy(errorJson.value.error) THEN errorJson.value.error
        ELSE HttpMessage(status)

\* response.ok
responseOk(status) == status >= 200 /\ status <= 299

\* variant: no status is taken for a response without content
NoContent_never(status) == FALSE

\* response.status === 204
NoContent(status) == status = 204

Returned(data, error) == [threw |-> FALSE, thrown |-> NoThrown, data |-> data, error |-> error]
Threw(thrown) == [threw |-> TRUE, thrown |-> thrown, data |-> JsNull, error |-> JsNull]

\* the try block; a body that cannot be read makes text() and json() throw
\* a TypeError
TryBlock(f) ==
    IF f.threw THEN Threw(f.thrown)
    ELSE IF ~responseOk(f.status)
    THEN IF f.textFails THEN Threw([isError |-> TRUE, message |-> "Failed to fetch"])
         ELSE Returned(JsNull, JsString(ErrorMessage(f.status, f.text)))
    ELSE IF NoContent(f.status) THEN Returned(JsNull, JsNull)
    ELSE IF f.textFails THEN Threw([isError |-> TRUE, message |-> "Failed to fetch"])
    ELSE IF JSONparse(f.text).threw
    THEN Threw([isError |-> TRUE, message |-> JSONparse(f.text).message])
    ELSE Returned(JSONparse(f.text).value, JsNull)

\* the catch block
CatchBlock(thrown) ==
    Returned(JsNull, JsString(IF thrown.isError THEN thrown.message ELSE "Network error"))

\* the value the promise of request() resolves to
request(f) ==
    LET tried == TryBlock(f)
        r == IF tried.threw THEN CatchBlock(tried.thrown) ELSE tried
    IN  [settled |-> TRUE, rejected |-> r.threw, data |-> r.data, error |-> r.error]

InitRequest ==
    /\ qFetch \in FetchOutcomes
    /\ qResult = NotSettled
    /\ CalcIdle
    /\ InitDash
    /\ OwnerIdle
    /\ ApiIdle
    /\ DialogIdle
    /\ AuthIdle

Request ==
    /\ ~qResult.settled
    /\ qResult' = request(qFetch)
    /\ UNCHANGED qFetch
    /\ UNCHANGED <<calcVars, dashVars, ownerVars, apiVars, dialogVars, authVars>>

NextRequest == Request

SpecRequest == InitRequest /\ [][NextRequest]_vars

-----------------------------------------------------------------------------
(* FollowUpPriority rendered with a drawn leads prop, src/unnamed/part_009:36-120 *)

\* the leads of the prop: never contacted, a call of 5 days ago, a plain
\* note of 8 days ago
WidgetLeadShapes ==
    { [status |-> "cold", notes |-> <<>>],
      [status |-> "contacted",
       notes |-> <<[type |-> "call", timestamp |-> Now0 - 5 * HoursPerDay]>>],
      [status |-> "contacted",
       notes |-> <<[type |-> "note", timestamp |-> Now0 - 8 * HoursPerDay]>>] }

\* the lead of the prop at position i: ids are distinct
WidgetLead(i, shape) ==
    [id |-> i, status |-> shape.status, priority |-> NoPriority,
     ownerId |-> CurrentUser, notes |-> shape.notes]

InitWidget ==
    /\ now = Now0
    /\ \E n \in 0..MaxWidgetLeads : \E f \in [1..MaxPattern -> WidgetLeadShapes] :
            leads = [i \in 1..n |-> WidgetLead(i, f[((i - 1) % MaxPattern) + 1])]
    /\ selectedLead = {}
    /\ sortByRecent = FALSE
    /\ showDormant = FALSE
    /\ nextId = 1
    /\ rows = <<>>
    /\ followUps = <<>>
    /\ lwpMemo = <<>>
    /\ cNow = Now0
    /\ cLead = [id |-> 1, status |-> "cold", priority |-> NoPriority,
                ownerId |-> CurrentUser, notes |-> <<>>]
    /\ cResult = NoResult
    /\ cFollowUps = <<>>
    /\ cCalls = {}
    /\ ExtIdle

\* const followUps = calculateFollowUps()   in the body of FollowUpPriority
RenderFollowUps ==
    /\ followUps' = calculateFollowUps(leads, now)
    /\ leads' = [i \in DOMAIN leads |-> FollowUpsLeadAfter(leads[i])]
    /\ UNCHANGED <<now, selectedLead, sortByRecent, showDormant, nextId, rows, lwpMemo>>
    /\ UNCHANGED calcVars
    /\ UNCHANGED extVars

NextWidget == RenderFollowUps

SpecWidget == InitWidget /\ [][NextWidget]_vars

-----------------------------------------------------------------------------
(* Properties of calculatePriority (SpecCalc) *)

Range(s) == {s[i] : i \in DOMAIN s}

\* the notes of a lead that no other note is more recent than
MostRecentNotes(lead) ==
    {n \in Range(lead.notes) : \A m \in Range(lead.notes) : m.timestamp <= n.timestamp}

\* whole days elapsed since the lead's most recent note (the lead has notes)
DaysSince(lead, t) ==
    LET n == CHOOSE x \in MostRecentNotes(lead) : TRUE
    IN  (t - n.timestamp) \div HoursPerDay

\* the seven rules of the cadence table, for a lead with notes whose most
\* recent note has type ty and is d whole days old
RuleMatches(k, status, ty, d) ==
    CASE k = 2 -> d > 30
      [] k = 3 -> status = "interested" /\ d >= 2
      [] k = 4 -> ty = "call" /\ d >= 3
      [] k = 5 -> ty = "email" /\ d >= 5
      [] k = 6 -> d >= 7
      [] k = 7 -> TRUE

FirstRule(status, ty, d) ==
    CHOOSE k \in 2..7 : /\ RuleMatches(k, status, ty, d)
                        /\ \A j \in 2..(k - 1) : ~RuleMatches(j, status, ty, d)

RuleOutcome(k) ==
    CASE k = 1 -> <<"high", "No initial contact made">>
      [] k = 2 -> <<"dormant", "Dormant - follow up when convenient">>
      [] k = 3 -> <<"high", "Interested lead needs immediate follow-up">>
      [] k = 4 -> <<"medium", "Email follow-up after call">>
      [] k = 5 -> <<"medium", "Call follow-up after email">>
      [] k = 6 -> <<"low", "Weekly check-in">>
      [] k = 7 -> <<"low", "On schedule">>

TableOutcomes(lead, t) ==
    IF Len(lead.notes) = 0 THEN {RuleOutcome(1)}
    ELSE {RuleOutcome(FirstRule(lead.status, n.type, DaysSince(lead, t))) :
              n \in MostRecentNotes(lead)}

Calculated == "calculatePriority" \in cCalls

\* C1: calculatePriority returns the priority and reason of the first
\* matching rule of the seven-rule table, for every status, every set of
\* notes and every clock value, and its tier is one of high, medium, low,
\* dormant.
C1_FirstMatchingRule ==
    Calculated =>
        /\ <<cResult.priority, cResult.reason>> \in TableOutcomes(cLead, cNow)
        /\ cResult.priority \in Priorities

C1_Witness ==
    /\ Calculated
    /\ Len(cLead.notes) = 2
    /\ cLead.status = "contacted"
    /\ \A n \in MostRecentNotes(cLead) : n.type = "email"
    /\ DaysSince(cLead, cNow) = 5
    /\ cResult.reason = "Call follow-up after email"

\* C2: a lead with no notes is rated high, 'No initial contact made', next
\* action now, whatever its status.
C2_NoNotesHigh ==
    (Calculated /\ Len(cLead.notes) = 0) =>
        cResult = [priority |-> "high", nextActionDate |-> cNow,
                   reason |-> "No initial contact made"]

C2_Witness ==
    /\ Calculated
    /\ Len(cLead.notes) = 0
    /\ cLead.status = "closed"
    /\ cResult.priority = "high"

\* C3: a lead whose most recent note is more than 30 whole days old is rated
\* dormant with next action in 7 days, whatever the status and the note's
\* type; at exactly 30 days it is not dormant.
C3_DormantAfter30 ==
    (Calculated /\ Len(cLead.notes) > 0) =>
        /\ DaysSince(cLead, cNow) > 30 =>
              /\ cResult.priority = "dormant"
              /\ cResult.nextActionDate = cNow + 7 * HoursPerDay
        /\ DaysSince(cLead, cNow) = 30 => cResult.priority # "dormant"

C3_Witness ==
    /\ Calculated
    /\ Len(cLead.notes) > 0
    /\ cLead.status = "interested"
    /\ DaysSince(cLead, cNow) = 31
    /\ cResult.priority = "dormant"

\* C4: an interested lead whose most recent note is 2 to 30 days old is rated
\* high, 'Interested lead needs immediate follow-up', next action now,
\* whatever the type of that note.
C4_InterestedHigh ==
    (/\ Calculated
     /\ Len(cLead.notes) > 0
     /\ cLead.status = "interested"
     /\ DaysSince(cLead, cNow) >= 2
     /\ DaysSince(cLead, cNow) <= 30) =>
        cResult = [priority |-> "high", nextActionDate |-> cNow,
                   reason |-> "Interested lead needs immediate follow-up"]

C4_Witness ==
    /\ Calculated
    /\ cLead.status = "interested"
    /\ Len(cLead.notes) > 0
    /\ \A n \in MostRecentNotes(cLead) : n.type = "call"
    /\ DaysSince(cLead, cNow) = 7
    /\ cResult.priority = "high"

SingleCallNote(age) == cLead.notes = <<[type |-> "call", timestamp |-> cNow - age]>>

\* C5: a lead that is not interested and whose most recent note is a call 3
\* to 30 days old is rated medium, 'Email follow-up after call', next action
\* now; a single call note exactly 72 hours old on a contacted lead is
\* medium, one less than 72 hours old is not.
C5_CallFollowUp ==
    Calculated =>
        /\ (/\ Len(cLead.notes) > 0
            /\ cLead.status # "interested"
            /\ \A n \in MostRecentNotes(cLead) : n.type = "call"
            /\ DaysSince(cLead, cNow) >= 3
            /\ DaysSince(cLead, cNow) <= 30) =>
               cResult = [priority |-> "medium", nextActionDate |-> cNow,
                          reason |-> "Email follow-up after call"]
        /\ (cLead.status = "contacted" /\ SingleCallNote(3 * HoursPerDay)) =>
               cResult.priority = "medium"
        /\ (cLead.status = "contacted"
               /\ \E age \in 0..(3 * HoursPerDay - 1) : SingleCallNote(age)) =>
               cResult.priority # "medium"

C5_Witness ==
    /\ Calculated
    /\ cLead.status = "contacted"
    /\ SingleCallNote(3 * HoursPerDay)
    /\ cResult.reason = "Email follow-up after call"

FollowUpsCalculated == "calculateFollowUps" \in cCalls

\* C11: calculateFollowUps returns no item for a closed lead, whatever its
\* notes (also none at all).
C11_ClosedExcluded ==
    (FollowUpsCalculated /\ cLead.status = "closed") =>
        \A k \in DOMAIN cFollowUps : cFollowUps[k].lead # cLead.id

C11_Witness ==
    /\ FollowUpsCalculated
    /\ cLead.status = "closed"
    /\ Len(cLead.notes) = 0
    /\ cFollowUps = <<>>

\* C12: calculateFollowUps lists a lead that is not closed and has no notes,
\* with urgency high, next action call and 0 days overdue.
C12_NoNotesFollowUp ==
    (FollowUpsCalculated /\ cLead.status # "closed" /\ Len(cLead.notes) = 0) =>
        /\ Len(cFollowUps) = 1
        /\ cFollowUps[1].lead = cLead.id
        /\ cFollowUps[1].urgency = "high"
        /\ cFollowUps[1].nextAction = "call"
        /\ cFollowUps[1].daysOverdue = 0

C12_Witness ==
    /\ FollowUpsCalculated
    /\ cLead.status = "dormant"
    /\ Len(cLead.notes) = 0
    /\ Len(cFollowUps) = 1
    /\ cFollowUps[1].urgency = "high"

MostRecentAllOfType(lead, type) ==
    /\ Len(lead.notes) > 0
    /\ \A n \in MostRecentNotes(lead) : n.type = type

\* C13: a lead that is not closed and whose most recent note is a call at
\* least 2 days old is listed with next action email and daysOverdue =
\* daysSince - 2; its urgency is high when daysOverdue > 4 and medium
\* otherwise. A call less than 2 days old produces no item.
C13_CallFollowUpUrgency ==
    (FollowUpsCalculated /\ cLead.status # "closed"
        /\ MostRecentAllOfType(cLead, "call")) =>
        LET days == DaysSince(cLead, cNow) IN
        IF days >= 2
        THEN /\ Len(cFollowUps) = 1
             /\ cFollowUps[1].lead = cLead.id
             /\ cFollowUps[1].nextAction = "email"
             /\ cFollowUps[1].daysOverdue = days - 2
             /\ cFollowUps[1].urgency =
                    IF cFollowUps[1].daysOverdue > 4 THEN "high" ELSE "medium"
        ELSE cFollowUps = <<>>

\* C14: a lead that is not closed and whose most recent note is an email at
\* least 4 days old is listed with next action call and daysOverdue =
\* daysSince - 4; its urgency is high when daysOverdue > 7 and medium
\* otherwise. An email less than 4 days old produces no item.
C14_EmailFollowUpUrgency ==
    (FollowUpsCalculated /\ cLead.status # "closed"
        /\ MostRecentAllOfType(cLead, "email")) =>
        LET days == DaysSince(cLead, cNow) IN
        IF days >= 4
        THEN /\ Len(cFollowUps) = 1
             /\ cFollowUps[1].lead = cLead.id
             /\ cFollowUps[1].nextAction = "call"
             /\ cFollowUps[1].daysOverdue = days - 4
             /\ cFollowUps[1].urgency =
                    IF cFollowUps[1].daysOverdue > 7 THEN "high" ELSE "medium"
        ELSE cFollowUps = <<>>

\* the age in days below which the widget lists nothing for a last note of
\* the given type
FollowUpThreshold(type) ==
    IF type = "call" THEN 2 ELSE IF type = "email" THEN 4 ELSE 7

\* C15: a lead that is not closed, whose most recent note is neither a call
\* nor an email and is at least 7 days old, is listed as 'Weekly check-in'
\* with urgency low and next action call; an item has urgency low only by
\* this rule; a lead whose most recent note is younger than the threshold of
\* its type (call 2, email 4, other 7 days) produces no item.
C15_WeeklyCheckIn ==
    (FollowUpsCalculated /\ cLead.status # "closed" /\ Len(cLead.notes) > 0) =>
        LET days == DaysSince(cLead, cNow) IN
        /\ (MostRecentAllOfType(cLead, "note") /\ days >= 7) =>
                /\ Len(cFollowUps) = 1
                /\ cFollowUps[1].lead = cLead.id
                /\ cFollowUps[1].urgency = "low"
                /\ cFollowUps[1].nextAction = "call"
                /\ cFollowUps[1].reason = "Weekly check-in"
        /\ \A k \in DOMAIN cFollowUps :
                cFollowUps[k].urgency = "low" =>
                    /\ cFollowUps[k].reason = "Weekly check-in"
                    /\ days >= 7
                    /\ \E n \in MostRecentNotes(cLead) : n.type = "note"
        /\ \A type \in NoteTypes :
                (MostRecentAllOfType(cLead, type) /\ days < FollowUpThreshold(type)) =>
                    cFollowUps = <<>>

C15_Witness ==
    /\ FollowUpsCalculated
    /\ cLead.status = "contacted"
    /\ cLead.notes = <<[type |-> "note", timestamp |-> cNow - 7 * HoursPerDay]>>
    /\ Len(cFollowUps) = 1
    /\ cFollowUps[1].urgency = "low"

\* C16: both functions count whole days of elapsed time, floor((now - ts) /
\* 24 h): a single call note 71 hours old has daysSince 2 (calculatePriority
\* answers 'On schedule' with 5 days to go, the widget item is 0 days
\* overdue), one 72 hours old has daysSince 3 and 'Email follow-up after
\* call' fires, although both notes lie three calendar days back.
C16_ElapsedWholeDays ==
    \A age \in NoteAges :
        (SingleCallNote(age) /\ cLead.status \notin {"interested", "closed"}) =>
            LET days == age \div HoursPerDay IN
            /\ Calculated =>
                /\ (cResult.reason = "Email follow-up after call") <=> (days >= 3 /\ days <= 30)
                /\ (cResult.reason = "On schedule") <=> (days < 3)
                /\ (cResult.reason = "On schedule") =>
                        cResult.nextActionDate = cNow + (7 - days) * HoursPerDay
            /\ FollowUpsCalculated =>
                IF days >= 2
                THEN Len(cFollowUps) = 1 /\ cFollowUps[1].daysOverdue = days - 2
                ELSE cFollowUps = <<>>

C16_Witness ==
    /\ Calculated
    /\ FollowUpsCalculated
    /\ cLead.status = "contacted"
    /\ SingleCallNote(71)
    /\ cNow \div HoursPerDay - (cNow - 71) \div HoursPerDay = 3
    /\ cResult.reason = "On schedule"
    /\ Len(cFollowUps) = 1
    /\ cFollowUps[1].daysOverdue = 0

\* C17: an 'On schedule' answer has nextActionDate = now + (7 - daysSince)
\* days, which is 1 to 7 days after now when the most recent note is not in
\* the future; no answer of calculatePriority has a nextActionDate before now.
C17_NextActionDate ==
    Calculated =>
        /\ cResult.nextActionDate >= cNow
        /\ (cResult.reason = "On schedule") =>
              LET days == DaysSince(cLead, cNow) IN
              /\ Len(cLead.notes) > 0
              /\ cResult.nextActionDate = cNow + (7 - days) * HoursPerDay
              /\ (\A n \in Range(cLead.notes) : n.timestamp <= cNow) =>
                    /\ cResult.nextActionDate >= cNow + HoursPerDay
                    /\ cResult.nextActionDate <= cNow + 7 * HoursPerDay

C17_Witness ==
    /\ Calculated
    /\ cResult.reason = "On schedule"
    /\ cLead.notes = <<[type |-> "email", timestamp |-> cNow - 3 * HoursPerDay]>>
    /\ cResult.nextActionDate = cNow + 4 * HoursPerDay

BothCalculated == Calculated /\ FollowUpsCalculated

\* C18: for a lead that is neither closed nor interested the two rule sets
\* differ exactly at the thresholds: with a call as most recent note and
\* daysSince 2, or an email and daysSince 4, calculateFollowUps lists the lead
\* with urgency medium while calculatePriority answers low 'On schedule';
\* from 3 (call) or 5 (email) up to 30 days both flag the lead, and below 2
\* (call) or 4 (email) days neither does.
C18_DifferAtThresholds ==
    (BothCalculated /\ cLead.status \notin {"closed", "interested"}) =>
        \A type \in {"call", "email"} :
            MostRecentAllOfType(cLead, type) =>
                LET days == DaysSince(cLead, cNow)
                    widget == FollowUpThreshold(type)
                IN  /\ (days = widget) =>
                            /\ Len(cFollowUps) = 1
                            /\ cFollowUps[1].lead = cLead.id
                            /\ cFollowUps[1].urgency = "medium"
                            /\ cResult.priority = "low"
                            /\ cResult.reason = "On schedule"
                    /\ (days > widget /\ days <= 30) =>
                            /\ Len(cFollowUps) = 1
                            /\ cFollowUps[1].lead = cLead.id
                            /\ cResult.priority = "medium"
                    /\ (days < widget) =>
                            /\ cFollowUps = <<>>
                            /\ cResult.reason = "On schedule"

C18_Witness ==
    /\ BothCalculated
    /\ cLead.status = "cold"
    /\ cLead.notes = <<[type |-> "call", timestamp |-> cNow - 2 * HoursPerDay]>>
    /\ Len(cFollowUps) = 1
    /\ cFollowUps[1].urgency = "medium"
    /\ cResult.reason = "On schedule"

\* C19: a lead that calculatePriority rates dormant is not listed by
\* calculateFollowUps with urgency high or medium.
C19_DormantNotUrgent ==
    (BothCalculated /\ cResult.priority = "dormant") =>
        \A k \in DOMAIN cFollowUps : cFollowUps[k].urgency \notin {"high", "medium"}

\* the lead with its notes stored in every array order
Reorderings(lead) ==
    {[lead EXCEPT !.notes = [i \in DOMAIN lead.notes |-> lead.notes[p[i]]]] :
        p \in Permutations(DOMAIN lead.notes)}

\* C8: the result of calculatePriority is the same for every array order of
\* the same notes, also when notes of different types share the greatest
\* timestamp.
C8_OrderIndependent ==
    Calculated => \A l \in Reorderings(cLead) : calculatePriority(l, cNow) = cResult

\* C9: calculatePriority and calculateFollowUps leave the lead they are given
\* unchanged: its notes array holds the same notes in the same order.
C9_SideEffectFree == [][cLead'.notes = cLead.notes]_vars

-----------------------------------------------------------------------------
(* Properties of the dashboard (Spec); no column-header sort is active: the *)
(* table's own sorting state stays empty.                                  *)

TierRank(p) == CASE p = "high" -> 4 [] p = "medium" -> 3 [] p = "low" -> 2 [] p = "dormant" -> 1

\* the instant of a row's most recent note, 0 for a row without notes
RecentTime(row) ==
    IF Len(row.notes) = 0 THEN 0
    ELSE CHOOSE t \in {n.timestamp : n \in Range(row.notes)} :
            \A n \in Range(row.notes) : n.timestamp <= t

\* C6: with sortByRecent enabled no row of a lower tier precedes a row of a
\* higher tier (high > medium > low > dormant).
C6_TierOrder ==
    sortByRecent =>
        \A i, j \in DOMAIN rows :
            i < j => TierRank(rows[i].priority) >= TierRank(rows[j].priority)

C6_Witness ==
    /\ sortByRecent
    /\ \E i, j \in DOMAIN rows :
          /\ i < j
          /\ TierRank(rows[i].priority) > TierRank(rows[j].priority)
          /\ rows[i].id > rows[j].id

\* C7: with sortByRecent enabled rows of the same tier are in non-increasing
\* order of their most recent note's time, a lead without notes counting as
\* time 0, so it comes after every lead of its tier that has a note.
C7_RecentFirstWithinTier ==
    sortByRecent =>
        \A i, j \in DOMAIN rows :
            (i < j /\ rows[i].priority = rows[j].priority) =>
                /\ RecentTime(rows[i]) >= RecentTime(rows[j])
                /\ ~(Len(rows[i].notes) = 0 /\ Len(rows[j].notes) > 0)

C7_Witness ==
    /\ sortByRecent
    /\ \E i, j \in DOMAIN rows :
          /\ i < j
          /\ rows[i].priority = rows[j].priority
          /\ Len(rows[i].notes) > 0
          /\ Len(rows[j].notes) = 0
          /\ rows[i].id > rows[j].id

\* C10: the dashboard's 'High Priority' and 'Dormant' counters equal the
\* number of leads that calculatePriority rates high and dormant.
C10_CountersRecomputed ==
    /\ highPriorityLeads =
          Cardinality({i \in DOMAIN leads : calculatePriority(leads[i], now).priority = "high"})
    /\ dormantLeads =
          Cardinality({i \in DOMAIN leads : calculatePriority(leads[i], now).priority = "dormant"})

-----------------------------------------------------------------------------
(* Properties of the follow-up widget (SpecWidget) *)

\* item a ranks at least as high as item b: higher urgency, or the same
\* urgency and no fewer days overdue
RanksAtLeast(a, b) ==
    \/ urgencyOrder(a.urgency) > urgencyOrder(b.urgency)
    \/ /\ urgencyOrder(a.urgency) = urgencyOrder(b.urgency)
       /\ a.daysOverdue >= b.daysOverdue

-----------------------------------------------------------------------------
(* Properties of the dashboard's handlers (Spec) *)

\* how often the note n occurs in the notes array ns
NoteCount(ns, n) == Cardinality({k \in DOMAIN ns : ns[k] = n})

\* the arrays ns and ms hold the same notes except for extra more copies of
\* the note n in ms
SameNotesPlus(ns, ms, n, extra) ==
    \A x \in Range(ns) \cup Range(ms) \cup {n} :
        NoteCount(ms, x) = NoteCount(ns, x) + (IF x = n THEN extra ELSE 0)

PlaceOf(id) == CHOOSE k \in DOMAIN leads : leads[k].id = id

\* C22: while sortByRecent is false the table shows the leads in the order of
\* its leads prop, after any toggles of sortByRecent and showDormant, also
\* while showDormant is true (then it shows every lead).
C22_PropOrderWhenNotRecent ==
    ~sortByRecent =>
        /\ \A i \in DOMAIN rows : \E k \in DOMAIN leads : leads[k].id = rows[i].id
        /\ \A i, j \in DOMAIN rows : i < j => PlaceOf(rows[i].id) < PlaceOf(rows[j].id)
        /\ (showDormant /\ Len(rows) > 0) => Len(rows) = Len(leads)

C22_Witness ==
    /\ ~sortByRecent
    /\ showDormant
    /\ Len(leads) = 2
    /\ Len(rows) = 2
    /\ rows[1].id = leads[1].id
    /\ LeadCmp(rows[1], rows[2]) > 0
    /\ lwpMemo = rows

\* the clock values at which the dashboard may have rendered last
RenderTimes == {Now0 + d * HoursPerDay : d \in 0..MaxClockDays}

\* C23: the dormant filter is exact. The table computed a priority for every
\* lead of its prop; with showDormant false its rows are exactly the leads
\* whose computed priority is not dormant, each once; with showDormant true
\* every lead is a row exactly once.
C23_DormantFilterExact ==
    Len(leads) > 0 =>
        /\ Len(lwpMemo) = Len(leads)
        /\ \A k \in DOMAIN leads : \E m \in DOMAIN lwpMemo : lwpMemo[m].id = leads[k].id
        /\ \E t \in RenderTimes : t <= now /\
              \A m \in DOMAIN lwpMemo :
                  lwpMemo[m].priority =
                      calculatePriority(leads[PlaceOf(lwpMemo[m].id)], t).priority
        /\ \A i \in DOMAIN rows : \E m \in DOMAIN lwpMemo : rows[i] = lwpMemo[m]
        /\ \A i, j \in DOMAIN rows : rows[i].id = rows[j].id => i = j
        /\ \A m \in DOMAIN lwpMemo :
              (\E i \in DOMAIN rows : rows[i].id = lwpMemo[m].id)
                  <=> (showDormant \/ lwpMemo[m].priority # "dormant")

C23_Witness ==
    /\ ~showDormant
    /\ Len(leads) = 2
    /\ Len(rows) = 1
    /\ \E m \in DOMAIN lwpMemo : lwpMemo[m].priority = "dormant"
    /\ rows[1].priority # "dormant"

-----------------------------------------------------------------------------
(* Properties of recording a note (SpecNote) *)

\* C24: when handleAddNote adds a note to a lead at time t, no note of the
\* lead being dated later than t, then at every hour from t to less than two
\* days after t calculatePriority rates the lead low 'On schedule' and
\* calculateFollowUps lists nothing for it, whatever the status of the lead
\* and the type of the note; the render that follows shows the same.
C24_NoteClearsFollowUp ==
    [][ \A type \in NoteTypes :
          (/\ PanelAddNote(type)
           /\ \A n \in Range(leads[1].notes) : n.timestamp <= now) =>
              /\ \A d \in 0..(2 * HoursPerDay - 1) :
                    /\ calculatePriority(leads'[1], now + d).priority = "low"
                    /\ calculatePriority(leads'[1], now + d).reason = "On schedule"
                    /\ calculateFollowUps(<<leads'[1]>>, now + d) = <<>>
              /\ rows'[1].priorityReason = "On schedule"
              /\ followUps' = <<>>
      ]_vars

C24_Witness ==
    /\ now = Now0 + 47
    /\ leads[1].status = "interested"
    /\ Len(leads[1].notes) = 2
    /\ \E i \in 1..2 : leads[1].notes[i] = [type |-> "call", timestamp |-> Now0 - 3 * HoursPerDay]
    /\ \E i \in 1..2 : leads[1].notes[i] = [type |-> "call", timestamp |-> Now0]
    /\ calculatePriority(leads[1], now).reason = "On schedule"

-----------------------------------------------------------------------------
(* Properties of the Owner column (SpecOwner) *)

\* C25: with the claim and unclaim buttons user U only takes leads that have
\* no owner and only releases leads U owns: no step changes ownerId or
\* ownerName of a lead owned by another user, a claim is made on a lead
\* without owner and sets ownerId and ownerName to U's id and name, and a
\* release is made on a lead U owns.
C25_OwnershipRespected ==
    [][ /\ \A i \in DOMAIN oLeads :
              oLeads[i].ownerId \notin {NoUser, oUser} => oLeads'[i] = oLeads[i]
        /\ \A leadId \in 1..MaxOwnerLeads :
              (handleClaimLead(leadId) /\ oUser # NoUser) =>
                  /\ oLeads[leadId].ownerId = NoUser
                  /\ oLeads'[leadId].ownerId = oUser
                  /\ oLeads'[leadId].ownerName = UserName(oUser)
        /\ \A leadId \in 1..MaxOwnerLeads :
              handleUnclaimLead(leadId) =>
                  /\ oLeads[leadId].ownerId = oUser
                  /\ oLeads'[leadId] = [id |-> leadId, ownerId |-> NoUser, ownerName |-> NoName]
      ]_vars

C25_Witness ==
    /\ oUser = "u1"
    /\ Len(oLeads) >= 3
    /\ oLeads[1].ownerId = "u1"
    /\ oLeads[1].ownerName = "Ann"
    /\ oLeads[2].ownerId = "u2"
    /\ oLeads[2].ownerName = "Bob"
    /\ oLeads[3].ownerId = NoUser

-----------------------------------------------------------------------------
(* Properties of the API-backed dashboard (SpecApi, SpecImport)              *)

\* C26: whenever selectedLead is not null, a lead with its id is in the
\* leads list, whatever the order in which update and delete requests and
\* their responses are handled
C26_SelectedLeadInList ==
    aSelected \subseteq LeadIds(aLeads)

\* C27: when handleCsvImport completes, every lead the backend created for
\* that import is in the local list, and the result does not deny an import
\* that created leads, also when only some of the rows failed
C27_ImportedLeadsListed ==
    [][handleCsvImportResume =>
          /\ LeadIds(aImport.results) \subseteq LeadIds(aLeads')
          /\ (aImport.results # <<>> => aResult'.success)]_vars

-----------------------------------------------------------------------------
(* Properties of the CSV import dialog (SpecDialog)                          *)

\* C28: the reset scheduled by a successful import touches only the opening
\* of the dialog that scheduled it: when it runs after the dialog has been
\* opened again, it leaves the chosen file, the parsed leads and the open
\* dialog as they are
C28_ResetKeepsLaterSession ==
    [][\A s \in 1..MaxSessions :
          (TimerFires(s) /\ s # dSession) =>
              /\ dFile' = dFile
              /\ dParsed' = dParsed
              /\ dOpen' = dOpen]_vars

-----------------------------------------------------------------------------
(* Properties of the localStorage-backed AuthProvider (SpecAuth)             *)

AccountsDistinct ==
    /\ \A i, j \in DOMAIN uAccounts : uAccounts[i].email = uAccounts[j].email => i = j
    /\ \A i \in DOMAIN uAccounts : ~existingDemo(uAccounts[i].email)

\* C29: no two stored accounts have the same email and none has the email
\* of a demo account, whatever was called; a signUp with an email that a
\* stored or a demo account already has returns success = false and changes
\* neither the stored accounts nor the current user
C29_AccountsDistinct ==
    /\ []AccountsDistinct
    /\ [][\A email \in Emails, password \in Passwords :
            (/\ signUp(email, password)
             /\ (existingAccount(email) \/ existingDemo(email)))
            => /\ uReturn' = [op |-> "signUp", success |-> FALSE]
               /\ uAccounts' = uAccounts
               /\ uUser' = uUser]_vars

\* a refused signUp with accounts stored and a user signed in
C29_Witness ==
    /\ uReturn = [op |-> "signUp", success |-> FALSE]
    /\ Len(uAccounts) >= 2
    /\ uUser # {}

-----------------------------------------------------------------------------
(* Properties of ApiClient.request (SpecRequest)                             *)

Is2xx(status) == status \in 200..299

\* never rejected; an error comes with no data; a thrown error and a
\* response that is not 2xx give no data and an error; 204 gives neither
RequestErrorRules ==
    /\ ~qResult.rejected
    /\ (qResult.error # JsNull => qResult.data = JsNull)
    /\ (qFetch.threw \/ ~Is2xx(qFetch.status)) =>
          (qResult.data = JsNull /\ qResult.error # JsNull)
    /\ (~qFetch.threw /\ qFetch.status = 204) =>
          (qResult.data = JsNull /\ qResult.error = JsNull)

OtherSuccess == ~qFetch.threw /\ Is2xx(qFetch.status) /\ qFetch.status # 204

BodyParses == ~qFetch.textFails /\ ~JSONparse(qFetch.text).threw

\* C30 as stated: request never rejects and an error comes with no data; a
\* thrown error or a response that is not 2xx gives data = null and an
\* error, 204 gives null and null, and every other successful response
\* gives the parsed body with error = null
C30_RequestContract ==
    qResult.settled =>
        /\ RequestErrorRules
        /\ OtherSuccess =>
              /\ qResult.error = JsNull
              /\ BodyParses => qResult.data = JSONparse(qFetch.text).value

\* C30 amended: as stated, except that another successful response gives
\* the parsed body with error = null when its body can be read and is JSON,
\* and data = null with an error when it cannot
C30_RequestContractParsed ==
    qResult.settled =>
        /\ RequestErrorRules
        /\ (OtherSuccess /\ BodyParses) =>
              /\ qResult.error = JsNull
              /\ qResult.data = JSONparse(qFetch.text).value
        /\ (OtherSuccess /\ ~BodyParses) =>
              /\ qResult.data = JsNull
              /\ qResult.error # JsNull

\* a 200 response with an empty body has been handled
C30_Witness ==
    /\ qResult.settled
    /\ qFetch.status = 200 /\ qFetch.text = "" /\ ~qFetch.textFails
    /\ qResult.error = JsString("Unexpected end of JSON input")

====
